---------------------------- MODULE Spec2Model ----------------------------
(***************************************************************************)
(* PDF outline extractor (src/pdf_extractor.py): font-size threshold       *)
(* inference, heading classification, title selection, outline assembly    *)
(* and the per-document / batch drivers.                                   *)
(*                                                                         *)
(* A text is a sequence of one-character strings, so that len(), strip(),  *)
(* split() and the regular expressions are computed on the characters.     *)
(* A line record is [text, font_size, page]; bbox is never read by the     *)
(* code after extraction and is left out.  Font sizes are naturals.        *)
(***************************************************************************)
EXTENDS Integers, Sequences, FiniteSets, TLC

VARIABLES
    pc,               \* position of the driver (main / the caller of the extractor)
    pdf_files,        \* main: the inputs found by glob, in processing order
    next_pdf,         \* main: index of the next entry of pdf_files
    output_dir,       \* output files written so far: file index -> result
    crashed,          \* an exception left process_single_pdf
    formatted_text,   \* records of the document extracted last
    font_thresholds,  \* self.font_thresholds of the extractor instance
    result,           \* value returned by the last extract_outline / written last
    prior_thresholds, \* self.font_thresholds when the last extract_outline began
    prior_empty       \* the call before the last one was given an empty document

vars == <<pc, pdf_files, next_pdf, output_dir, crashed, formatted_text,
          font_thresholds, result, prior_thresholds, prior_empty>>

---------------------------------------------------------------------------
(* Characters and character classes of Python's re / str methods.          *)

Digits == {"0", "1", "2", "3", "4", "5", "6", "7", "8", "9"}

UpperCase == {"A", "B", "C", "D", "E", "F", "G", "H", "I", "J", "K", "L", "M",
              "N", "O", "P", "Q", "R", "S", "T", "U", "V", "W", "X", "Y", "Z"}

LowerCase == {"a", "b", "c", "d", "e", "f", "g", "h", "i", "j", "k", "l", "m",
              "n", "o", "p", "q", "r", "s", "t", "u", "v", "w", "x", "y", "z"}

Whitespace == {" ", "\t", "\n"}

SetMax(S) == CHOOSE x \in S : \A y \in S : y <= x

SetMin(S) == CHOOSE x \in S : \A y \in S : x <= y

\* A character class: the characters of set, or with neg every other character.
Class(set) == [neg |-> FALSE, set |-> set]

NotClass(set) == [neg |-> TRUE, set |-> set]

InClass(c, cls) == IF cls.neg THEN c \notin cls.set ELSE c \in cls.set

\* Regular expressions as trees.
Chr(cls) == <<"chr", cls>>

Cat(res) == <<"seq", res>>

Opt(re) == <<"opt", re>>

Star(re) == <<"star", re>>

Plus(re) == <<"plus", re>>

Bol == <<"bol">>

Eol == <<"eol">>

\* a{2,}
AtLeast2(re) == Cat(<<re, re, Star(re)>>)

\* A literal word.
Lit(word) == Cat([i \in 1 .. Len(word) |-> Chr(Class({word[i]}))])

\* Repetition of one character class, without recursion: from each start, every
\* position up to the end of the run of characters of the class.
RunEnds(cls, s, from) ==
    LET RunEnd(i) == SetMin({k \in i .. Len(s) + 1 :
                                k = Len(s) + 1 \/ ~InClass(s[k], cls)})
    IN  UNION {i .. RunEnd(i) : i \in from}

RECURSIVE Ends(_, _, _)
RECURSIVE SeqEnds(_, _, _, _)
RECURSIVE Closure(_, _, _, _)

\* The positions at which a match of re can end when it starts at a position
\* of from; position i is "before s[i]", Len(s) + 1 is the end of s.
Ends(re, s, from) ==
    IF from = {} THEN {}
    ELSE CASE re[1] = "chr" ->
                {i + 1 : i \in {j \in from : j <= Len(s) /\ InClass(s[j], re[2])}}
           [] re[1] = "seq" -> SeqEnds(re[2], 1, s, from)
           [] re[1] = "opt" -> from \cup Ends(re[2], s, from)
           [] re[1] = "star" ->
                IF re[2][1] = "chr" THEN RunEnds(re[2][2], s, from)
                ELSE Closure(re[2], s, from, from)
           [] re[1] = "plus" ->
                LET first == Ends(re[2], s, from)
                IN  IF re[2][1] = "chr" THEN RunEnds(re[2][2], s, first)
                    ELSE Closure(re[2], s, first, first)
           [] re[1] = "bol" -> from \cap {1}
           [] re[1] = "eol" ->
                {i \in from : i = Len(s) + 1 \/ (i = Len(s) /\ s[i] = "\n")}

SeqEnds(res, k, s, from) ==
    IF k > Len(res) THEN from ELSE SeqEnds(res, k + 1, s, Ends(res[k], s, from))

Closure(re, s, frontier, acc) ==
    LET new == Ends(re, s, frontier) \ acc
    IN  IF new = {} THEN acc ELSE Closure(re, s, new, acc \cup new)

\* re.match(pattern, text): a match starting at the beginning of text.
re_match(pattern, text) == Ends(pattern, text, {1}) # {}

\* str.strip()
strip(s) ==
    IF \A i \in 1 .. Len(s) : s[i] \in Whitespace THEN <<>>
    ELSE LET first == CHOOSE i \in 1 .. Len(s) :
                          s[i] \notin Whitespace
                          /\ \A j \in 1 .. i - 1 : s[j] \in Whitespace
             last == CHOOSE i \in 1 .. Len(s) :
                          s[i] \notin Whitespace
                          /\ \A j \in i + 1 .. Len(s) : s[j] \in Whitespace
         IN  SubSeq(s, first, last)

\* len(text.split()): the number of maximal runs of non-whitespace.
split_count(s) ==
    Cardinality({i \in 1 .. Len(s) :
                    /\ s[i] \notin Whitespace
                    /\ (i = 1 \/ s[i - 1] \in Whitespace)})

\* text.isupper(): no lowercase character and at least one uppercase one.
str_isupper(s) ==
    /\ \A i \in 1 .. Len(s) : s[i] \notin LowerCase
    /\ \E i \in 1 .. Len(s) : s[i] \in UpperCase

\* text.startswith(prefix)
startswith(s, prefix) ==
    Len(s) >= Len(prefix) /\ SubSeq(s, 1, Len(prefix)) = prefix

\* re.sub(r'\s+', ' ', s): every maximal run of whitespace becomes one space.
normalize_whitespace(s) ==
    LET marked == [i \in 1 .. Len(s) |->
                     IF s[i] \in Whitespace
                     THEN (IF i > 1 /\ s[i - 1] \in Whitespace THEN "" ELSE " ")
                     ELSE s[i]]
        Kept(c) == c # ""
    IN  SelectSeq(marked, Kept)

\* re.sub(r'^\d+\.?\s*', '', s): the greedy match at the start is removed.
NumberPrefix ==
    Cat(<<Bol, Plus(Chr(Class(Digits))), Opt(Chr(Class({"."}))),
          Star(Chr(Class(Whitespace)))>>)

strip_number_prefix(s) ==
    LET ends == Ends(NumberPrefix, s, {1})
    IN  IF ends = {} THEN s ELSE SubSeq(s, SetMax(ends), Len(s))

---------------------------------------------------------------------------
(* PDFOutlineExtractor                                                     *)

Digit == Chr(Class(Digits))

Dot == Chr(Class({"."}))

Space == Chr(Class(Whitespace))

Upper == Chr(Class(UpperCase))

Lower == Chr(Class(LowerCase))

\* [^.!?]
NotSentenceEnd == Chr(NotClass({".", "!", "?"}))

\* (Chapter|Section)\s+\d+[:\s]+[^.!?]*?$
KeywordHeading(word) ==
    Cat(<<Bol, Lit(word), Plus(Space), Plus(Digit),
          Plus(Chr(Class(Whitespace \cup {":"}))), Star(NotSentenceEnd), Eol>>)

\* self.heading_patterns, in the order of the list.
heading_patterns ==
    << \* ^(\d+\.?\s+[A-Z][^.!?]*?)$
       Cat(<<Bol, Plus(Digit), Opt(Dot), Plus(Space), Upper,
             Star(NotSentenceEnd), Eol>>),
       \* ^([A-Z][A-Z\s]{2,}[A-Z])$
       Cat(<<Bol, Upper, AtLeast2(Chr(Class(UpperCase \cup Whitespace))),
             Upper, Eol>>),
       \* ^([A-Z][a-z]+(?:\s+[A-Z][a-z]+)*):?\s*$
       Cat(<<Bol, Upper, Plus(Lower),
             Star(Cat(<<Plus(Space), Upper, Plus(Lower)>>)),
             Opt(Chr(Class({":"}))), Star(Space), Eol>>),
       \* ^(Chapter\s+\d+[:\s]+[^.!?]*?)$
       KeywordHeading(<<"C", "h", "a", "p", "t", "e", "r">>),
       \* ^(Section\s+\d+[:\s]+[^.!?]*?)$
       KeywordHeading(<<"S", "e", "c", "t", "i", "o", "n">>),
       \* ^(\d+\.\d+\.?\s+[A-Z][^.!?]*?)$
       Cat(<<Bol, Plus(Digit), Dot, Plus(Digit), Opt(Dot), Plus(Space), Upper,
             Star(NotSentenceEnd), Eol>>),
       \* ^(\d+\.\d+\.\d+\.?\s+[A-Z][^.!?]*?)$
       Cat(<<Bol, Plus(Digit), Dot, Plus(Digit), Dot, Plus(Digit), Opt(Dot),
             Plus(Space), Upper, Star(NotSentenceEnd), Eol>>) >>

\* The length gate of is_heading_by_pattern.
MinHeadingLen == 3

MaxHeadingLen == 200

\* The word limit of the classifier's looser gate, and of its all-caps rule.
MaxHeadingWords == 10

MaxCapsWords == 5

Text_1_Introduction ==
    <<"1", ".", " ", "I", "n", "t", "r", "o", "d", "u", "c", "t", "i", "o", "n">>

Text_1_1_Background ==
    <<"1", ".", "1", " ", "B", "a", "c", "k", "g", "r", "o", "u", "n", "d">>

\* "1.1  Background", with two spaces.
Text_1_1_Background_Wide ==
    <<"1", ".", "1", " ", " ", "B", "a", "c", "k", "g", "r", "o", "u", "n", "d">>

Text_Ab == <<"A", "b">>

Text_2024 == <<"2", "0", "2", "4">>

\* "A" followed by MaxHeadingLen times "a".
Text_Long == [i \in 1 .. MaxHeadingLen + 1 |-> IF i = 1 THEN "A" ELSE "a"]

Text_ANNUAL_REPORT ==
    <<"A", "N", "N", "U", "A", "L", " ", "R", "E", "P", "O", "R", "T">>

Text_1_2_3_Deep == <<"1", ".", "2", ".", "3", " ", "D", "e", "e", "p">>

Text_Key_Points == <<"K", "e", "y", " ", "P", "o", "i", "n", "t", "s">>

Text_body == <<"t", "h", "e", " ", "b", "o", "d", "y", " ", "t", "e", "x", "t">>

\* The texts of the input records.
KnownTexts ==
    {Text_1_Introduction, Text_1_1_Background, Text_1_1_Background_Wide, Text_Ab,
     Text_2024, Text_Long, Text_ANNUAL_REPORT, Text_1_2_3_Deep, Text_Key_Points,
     Text_body}

\* The keys of the thresholds dictionary.
ThresholdKeys == {"title", "h1", "h2", "h3"}

\* self.font_thresholds = {} after __init__.
NoThresholds == [k \in {} |-> 0]

\* Mutant of unique_sizes_desc: the sizes sorted without the Counter, so that
\* a size used by several lines is listed once per line.
all_sizes_desc(formatted_text_) ==
    LET n == Len(formatted_text_)
        AtLeast(x) == Cardinality({j \in 1 .. n : formatted_text_[j].font_size >= x})
        Above(x) == Cardinality({j \in 1 .. n : formatted_text_[j].font_size > x})
    IN  [i \in 1 .. n |->
            CHOOSE x \in {formatted_text_[j].font_size : j \in 1 .. n} :
                Above(x) < i /\ i <= AtLeast(x)]

\* sorted(font_counter.keys(), reverse=True)
unique_sizes_desc(formatted_text_) ==
    LET keys == {formatted_text_[i].font_size : i \in DOMAIN formatted_text_}
    IN  [i \in 1 .. Cardinality(keys) |->
            CHOOSE x \in keys : Cardinality({y \in keys : y > x}) = i - 1]

\* Mutant of determine_font_thresholds: h1 read at the index of the title.
determine_font_thresholds_h1_slip(formatted_text_) ==
    LET unique_sizes == unique_sizes_desc(formatted_text_)
        n == Len(unique_sizes)
        h2_threshold == IF n > 2 THEN unique_sizes[3] ELSE unique_sizes[1]
        h3_threshold == IF n > 3 THEN unique_sizes[4] ELSE h2_threshold
    IN  [k \in ThresholdKeys |->
            CASE k = "title" -> unique_sizes[1]
              [] k = "h1" -> unique_sizes[1]
              [] k = "h2" -> h2_threshold
              [] k = "h3" -> h3_threshold]

determine_font_thresholds(formatted_text_) ==
    LET unique_sizes == unique_sizes_desc(formatted_text_)
        n == Len(unique_sizes)
        title_threshold == unique_sizes[1]
        h1_threshold == IF n > 1 THEN unique_sizes[2] ELSE unique_sizes[1]
        h2_threshold == IF n > 2 THEN unique_sizes[3] ELSE h1_threshold
        h3_threshold == IF n > 3 THEN unique_sizes[4] ELSE h2_threshold
    IN  IF n < 2
        THEN [k \in ThresholdKeys |-> SetMax({unique_sizes[i] : i \in 1 .. n})]
        ELSE [k \in ThresholdKeys |->
                CASE k = "title" -> title_threshold
                  [] k = "h1" -> h1_threshold
                  [] k = "h2" -> h2_threshold
                  [] k = "h3" -> h3_threshold]

is_heading_by_pattern(text_) ==
    LET text == strip(text_)
    IN  IF Len(text) < MinHeadingLen \/ Len(text) > MaxHeadingLen
        THEN FALSE
        ELSE \E k \in DOMAIN heading_patterns : re_match(heading_patterns[k], text)

\* Lines 112-115: TRUE when classify_heading_level goes on to assign a level.
heading_gate(text_) ==
    LET text == strip(text_)
    IN  \/ is_heading_by_pattern(text)
        \/ (text[1] \in UpperCase /\ split_count(text) <= MaxHeadingWords)

\* Mutant of font_size_level: the h3 comparison is strict.
font_size_level_strict_h3(font_size, page, thresholds) ==
    IF font_size >= thresholds["title"] /\ page = 1 THEN "title"
    ELSE IF font_size >= thresholds["h1"] THEN "H1"
    ELSE IF font_size >= thresholds["h2"] THEN "H2"
    ELSE IF font_size > thresholds["h3"] THEN "H3"
    ELSE "None"

\* Mutant of font_size_level: the title branch does not look at the page.
font_size_level_any_page(font_size, page, thresholds) ==
    IF font_size >= thresholds["title"] THEN "title"
    ELSE IF font_size >= thresholds["h1"] THEN "H1"
    ELSE IF font_size >= thresholds["h2"] THEN "H2"
    ELSE IF font_size >= thresholds["h3"] THEN "H3"
    ELSE "None"

\* Lines 118-125: the level by font size, "None" when no branch is taken.
font_size_level(font_size, page, thresholds) ==
    IF font_size >= thresholds["title"] /\ page = 1 THEN "title"
    ELSE IF font_size >= thresholds["h1"] THEN "H1"
    ELSE IF font_size >= thresholds["h2"] THEN "H2"
    ELSE IF font_size >= thresholds["h3"] THEN "H3"
    ELSE "None"

\* Lines 128-137: the level by numbering or capitals.
pattern_level(text_) ==
    LET text == strip(text_)
        num == Plus(Digit)
    IN  IF re_match(Cat(<<Bol, num, Dot, num, Dot, num>>), text) THEN "H3"
        ELSE IF re_match(Cat(<<Bol, num, Dot, num>>), text) THEN "H2"
        ELSE IF re_match(Cat(<<Bol, num, Dot>>), text) THEN "H1"
        ELSE IF str_isupper(text) /\ split_count(text) <= MaxCapsWords THEN "H1"
        ELSE "None"

\* The values of the operators on texts for the input texts; a constant is
\* evaluated once, so that the characters of a text are not walked again for
\* every record that carries it.
heading_gate_of == [t \in KnownTexts |-> heading_gate(t)]

pattern_level_of == [t \in KnownTexts |-> pattern_level(t)]

classify_heading_level(text, font_size, page, thresholds) ==
    IF ~heading_gate_of[text] THEN "None"
    ELSE IF font_size_level(font_size, page, thresholds) # "None"
         THEN font_size_level(font_size, page, thresholds)
         ELSE pattern_level_of[text]

\* Lengths used by extract_title: a title candidate is longer than
\* TitleCandidateLen; the fallback scan reads TitleScanLines records and takes a
\* text longer than TitleScanMinLen and shorter than TitleScanMaxLen.
TitleCandidateLen == 3

TitleScanLines == 10

TitleScanMinLen == 5

TitleScanMaxLen == 100

UntitledDocument ==
    <<"U", "n", "t", "i", "t", "l", "e", "d", " ",
      "D", "o", "c", "u", "m", "e", "n", "t">>

EmptyDocument ==
    <<"E", "m", "p", "t", "y", " ", "D", "o", "c", "u", "m", "e", "n", "t">>

ErrorProcessingDocument ==
    <<"E", "r", "r", "o", "r", " ", "P", "r", "o", "c", "e", "s", "s", "i", "n", "g", " ",
      "D", "o", "c", "u", "m", "e", "n", "t">>

\* item for item in formatted_text if item["page"] == 1
first_page_text(formatted_text_) ==
    LET OnFirstPage(item) == item.page = 1
    IN  SelectSeq(formatted_text_, OnFirstPage)

\* Lines 147-151.
title_candidates(formatted_text_) ==
    LET first == first_page_text(formatted_text_)
        max_font_size == SetMax({first[i].font_size : i \in DOMAIN first})
        IsCandidate(item) ==
            item.font_size = max_font_size /\ Len(item.text) > TitleCandidateLen
    IN  SelectSeq(first, IsCandidate)

\* Lines 163-165: the condition of the fallback scan, on the stripped text.
looks_like_title(text) ==
    /\ Len(text) > TitleScanMinLen
    /\ Len(text) < TitleScanMaxLen
    /\ ~startswith(text, <<"P", "a", "g", "e">>)
    /\ ~startswith(text, <<"C", "h", "a", "p", "t", "e", "r">>)
    /\ ~startswith(text, <<"S", "e", "c", "t", "i", "o", "n">>)
    /\ ~re_match(Cat(<<Bol, Plus(Digit), Eol>>), text)

\* Lines 157-158: the title made of a candidate's text.
clean_title(text) == strip(strip_number_prefix(text))

stripped_of == [t \in KnownTexts |-> strip(t)]

looks_like_title_of == [t \in KnownTexts |-> looks_like_title(strip(t))]

clean_title_of == [t \in KnownTexts |-> clean_title(t)]

\* Lines 161-168.
title_fallback_scan(formatted_text_) ==
    LET first == first_page_text(formatted_text_)
        scanned == {i \in DOMAIN first :
                        i <= TitleScanLines /\ looks_like_title_of[first[i].text]}
    IN  IF scanned = {} THEN UntitledDocument
        ELSE stripped_of[first[SetMin(scanned)].text]

extract_title(formatted_text_) ==
    IF first_page_text(formatted_text_) = <<>> THEN UntitledDocument
    ELSE IF title_candidates(formatted_text_) # <<>>
         THEN clean_title_of[title_candidates(formatted_text_)[1].text]
         ELSE title_fallback_scan(formatted_text_)

\* Line 200: the shortest heading kept is longer than MinOutlineLen.
MinOutlineLen == 2

\* Mutant of is_new_heading: seen_headings is not consulted.
is_new_heading_no_dedup(heading_text, seen_headings) ==
    Len(heading_text) > MinOutlineLen

\* Line 200: heading_text not in seen_headings and len(heading_text) > 2
is_new_heading(heading_text, seen_headings) ==
    heading_text \notin seen_headings /\ Len(heading_text) > MinOutlineLen

\* Lines 195-197: the text of an outline entry.
heading_text_for(text) == normalize_whitespace(strip(text))

heading_text_of == [t \in KnownTexts |-> heading_text_for(t)]

RECURSIVE collect_headings(_, _, _, _, _)

\* Lines 188-206: the loop over formatted_text from record i on, with the
\* outline and the seen_headings accumulated so far.
collect_headings(formatted_text_, i, thresholds, outline, seen_headings) ==
    IF i > Len(formatted_text_) THEN outline
    ELSE LET item == formatted_text_[i]
             level == classify_heading_level(item.text, item.font_size, item.page,
                                             thresholds)
             heading_text == heading_text_of[item.text]
         IN  IF level \notin {"None", "title"}
                /\ is_new_heading(heading_text, seen_headings)
             THEN collect_headings(formatted_text_, i + 1, thresholds,
                      Append(outline, [level |-> level, text |-> heading_text,
                                       page |-> item.page]),
                      seen_headings \cup {heading_text})
             ELSE collect_headings(formatted_text_, i + 1, thresholds, outline,
                                   seen_headings)

\* Mutant of sort_by_page: the outline is left in encounter order.
sort_by_page_skipped(outline) == outline

RECURSIVE sort_by_page(_)

\* outline.sort(key=lambda x: x["page"]): list.sort is stable, so the entries of
\* the lowest page come first in their order, then the rest sorted the same way.
sort_by_page(outline) ==
    IF outline = <<>> THEN <<>>
    ELSE LET lowest == SetMin({outline[i].page : i \in DOMAIN outline})
             OnLowest(entry) == entry.page = lowest
             Later(entry) == entry.page # lowest
         IN  SelectSeq(outline, OnLowest) \o sort_by_page(SelectSeq(outline, Later))

\* Mutant of updated_thresholds: thresholds already stored are kept.
updated_thresholds_kept(self_thresholds, formatted_text_) ==
    IF self_thresholds # NoThresholds THEN self_thresholds
    ELSE determine_font_thresholds(formatted_text_)

\* Line 181: the value stored in self.font_thresholds for a non-empty document.
updated_thresholds(self_thresholds, formatted_text_) ==
    determine_font_thresholds(formatted_text_)

\* extract_outline from line 177 on, for the records formatted_text_ and an
\* extractor whose font_thresholds is self_thresholds: the new
\* self.font_thresholds and the value returned.
extract_outline(self_thresholds, formatted_text_) ==
    IF formatted_text_ = <<>>
    THEN [font_thresholds |-> self_thresholds,
          result |-> [title |-> EmptyDocument, outline |-> <<>>]]
    ELSE LET thresholds == updated_thresholds(self_thresholds, formatted_text_)
         IN  [font_thresholds |-> thresholds,
              result |-> [title |-> extract_title(formatted_text_),
                          outline |-> sort_by_page(
                              collect_headings(formatted_text_, 1, thresholds,
                                               <<>>, {}))]]

---------------------------------------------------------------------------
(* Drivers: process_single_pdf, main, and a caller that keeps one          *)
(* extractor instance for several documents.                               *)

\* A PDF file: readable is FALSE when fitz.open raises; lines are the records
\* extract_text_with_formatting yields for it.
Pdf(lines) == [readable |-> TRUE, lines |-> lines]

CorruptPdf == [readable |-> FALSE, lines |-> <<>>]

extract_text_with_formatting(pdf) == pdf.lines

ErrorResult == [title |-> ErrorProcessingDocument, outline |-> <<>>]

NoResult == [title |-> <<>>, outline |-> <<>>]

\* Mutant of process_single_pdf: no except clause, the exception of an
\* unreadable file leaves the function and nothing is written.
process_single_pdf_uncaught(pdf) ==
    IF ~pdf.readable
    THEN [raised |-> TRUE, wrote |-> FALSE, written |-> NoResult,
          formatted_text |-> <<>>, font_thresholds |-> NoThresholds]
    ELSE LET r == extract_outline(NoThresholds, extract_text_with_formatting(pdf))
         IN  [raised |-> FALSE, wrote |-> TRUE, written |-> r.result,
              formatted_text |-> extract_text_with_formatting(pdf),
              font_thresholds |-> r.font_thresholds]

\* process_single_pdf: a new extractor, extract_outline, the result written;
\* an exception of the try block is caught and the error result written instead.
\* raised tells whether an exception leaves the function.
process_single_pdf(pdf) ==
    IF ~pdf.readable
    THEN [raised |-> FALSE, wrote |-> TRUE, written |-> ErrorResult,
          formatted_text |-> <<>>, font_thresholds |-> NoThresholds]
    ELSE LET r == extract_outline(NoThresholds, extract_text_with_formatting(pdf))
         IN  [raised |-> FALSE, wrote |-> TRUE, written |-> r.result,
              formatted_text |-> extract_text_with_formatting(pdf),
              font_thresholds |-> r.font_thresholds]

\* The output directory with content written to the file of input number k.
write_output(dir, k, content) ==
    [j \in DOMAIN dir \cup {k} |-> IF j = k THEN content ELSE dir[j]]

NoFiles == [j \in {} |-> NoResult]

\* One call of process_single_pdf on an input of inputs.
ProcessSinglePdf(inputs) ==
    /\ pc = "start"
    /\ \E pdf \in inputs :
          LET out == process_single_pdf(pdf)
          IN  /\ formatted_text' = out.formatted_text
              /\ font_thresholds' = out.font_thresholds
              /\ result' = out.written
              /\ output_dir' = IF out.wrote THEN write_output(output_dir, 1, out.written)
                               ELSE output_dir
              /\ crashed' = out.raised
    /\ pc' = "done"
    /\ UNCHANGED <<pdf_files, next_pdf, prior_thresholds, prior_empty>>

\* main, lines 246-250: no input files.
MainNoFiles ==
    /\ pc = "main"
    /\ pdf_files = <<>>
    /\ pc' = "returned"
    /\ UNCHANGED <<pdf_files, next_pdf, output_dir, crashed, formatted_text,
                   font_thresholds, result, prior_thresholds, prior_empty>>

\* main, lines 254-256: one iteration of the loop over pdf_files.
MainProcessNext ==
    /\ pc = "main"
    /\ next_pdf <= Len(pdf_files)
    /\ LET out == process_single_pdf(pdf_files[next_pdf])
       IN  /\ formatted_text' = out.formatted_text
           /\ font_thresholds' = out.font_thresholds
           /\ result' = out.written
           /\ output_dir' = IF out.wrote
                            THEN write_output(output_dir, next_pdf, out.written)
                            ELSE output_dir
           /\ crashed' = out.raised
           /\ pc' = IF out.raised THEN "crashed" ELSE "main"
    /\ next_pdf' = next_pdf + 1
    /\ UNCHANGED <<pdf_files, prior_thresholds, prior_empty>>

\* main, line 258: the loop is over.
MainComplete ==
    /\ pc = "main"
    /\ pdf_files # <<>>
    /\ next_pdf > Len(pdf_files)
    /\ pc' = "complete"
    /\ UNCHANGED <<pdf_files, next_pdf, output_dir, crashed, formatted_text,
                   font_thresholds, result, prior_thresholds, prior_empty>>

\* extract_outline called on the one extractor instance of the caller.
ExtractOutlineCall(docs) ==
    /\ pc \in {"instance", "called"}
    /\ pc' = "called"
    /\ \E lines \in docs :
          LET r == extract_outline(font_thresholds, lines)
          IN  /\ formatted_text' = lines
              /\ font_thresholds' = r.font_thresholds
              /\ result' = r.result
    /\ prior_thresholds' = font_thresholds
    /\ prior_empty' = (pc = "called" /\ formatted_text = <<>>)
    /\ UNCHANGED <<pdf_files, next_pdf, output_dir, crashed>>

---------------------------------------------------------------------------
(* Inputs.                                                                 *)

\* Font sizes of the inputs, largest first.
FontSizes == <<18, 14, 12, 11, 10, 9, 8>>

Sizes(n) == {FontSizes[i] : i \in 1 .. n}

Records(texts, sizes, pages) == [text : texts, font_size : sizes, page : pages]

SeqsUpTo(S, n) == UNION {[1 .. k -> S] : k \in 0 .. n}

\* extract_text_with_formatting walks the pages in order.
PageOrdered(lines) ==
    \A i \in 1 .. Len(lines) - 1 : lines[i].page <= lines[i + 1].page

---------------------------------------------------------------------------
(* Specifications.                                                         *)

\* The longest document of Spec and SpecAnyOrder.
MaxRecords == 3

\* The longest document of SpecEdge.
MaxEdgeRecords == 2

\* The longest document of SpecSizes.
MaxSizeRecords == 5

\* The most input files of SpecBatch.
MaxFiles == 3

\* The longest document of SpecReuse.
MaxReuseRecords == 2

\* Documents as extract_text_with_formatting yields them, pages in order.
MainInputs ==
    {CorruptPdf} \cup
    {Pdf(lines) : lines \in
        {d \in SeqsUpTo(Records({Text_1_Introduction, Text_1_1_Background,
                                 Text_1_1_Background_Wide, Text_body},
                                Sizes(3), {1, 2}), MaxRecords) :
            PageOrdered(d)}}

\* Short documents with very short, very long and numeric lines.
EdgeInputs ==
    {Pdf(lines) : lines \in
        {d \in SeqsUpTo(Records({Text_1_Introduction, Text_Ab, Text_2024, Text_Long},
                                Sizes(2), {1, 2}), MaxEdgeRecords) :
            PageOrdered(d)}}

\* Record sequences in any order of pages.
AnyOrderInputs ==
    {Pdf(lines) : lines \in
        SeqsUpTo(Records({Text_1_Introduction, Text_1_1_Background, Text_Key_Points},
                         Sizes(2), {1, 2, 3}), MaxRecords)}

\* Documents with up to five distinct font sizes; the lines of one document
\* share their text and page.
SizeInputs ==
    {Pdf([i \in DOMAIN sizes |->
             [text |-> text, font_size |-> sizes[i], page |-> page]]) :
        <<sizes, text, page>> \in
            (SeqsUpTo(Sizes(5), MaxSizeRecords) \ {<<>>})
            \X {Text_1_2_3_Deep, Text_ANNUAL_REPORT, Text_Key_Points}
            \X {1, 2}}

\* The input files of a batch: unreadable, empty, or of one line.
BatchInputs ==
    {CorruptPdf, Pdf(<<>>),
     Pdf(<<[text |-> Text_1_Introduction, font_size |-> 18, page |-> 1]>>),
     Pdf(<<[text |-> Text_1_1_Background, font_size |-> 14, page |-> 2]>>)}

\* The documents given to the one extractor instance.
ReuseDocs ==
    SeqsUpTo(Records({Text_1_1_Background}, Sizes(2), {1, 2}), MaxReuseRecords)

Init ==
    /\ pc = "start"
    /\ pdf_files = <<>>
    /\ next_pdf = 1
    /\ output_dir = NoFiles
    /\ crashed = FALSE
    /\ formatted_text = <<>>
    /\ font_thresholds = NoThresholds
    /\ result = NoResult
    /\ prior_thresholds = NoThresholds
    /\ prior_empty = FALSE

\* main() on a directory of up to MaxFiles input files.
InitBatch ==
    /\ pc = "main"
    /\ pdf_files \in SeqsUpTo(BatchInputs, MaxFiles)
    /\ next_pdf = 1
    /\ output_dir = NoFiles
    /\ crashed = FALSE
    /\ formatted_text = <<>>
    /\ font_thresholds = NoThresholds
    /\ result = NoResult
    /\ prior_thresholds = NoThresholds
    /\ prior_empty = FALSE

\* A caller that constructs one PDFOutlineExtractor and keeps it.
InitReuse ==
    /\ pc = "instance"
    /\ pdf_files = <<>>
    /\ next_pdf = 1
    /\ output_dir = NoFiles
    /\ crashed = FALSE
    /\ formatted_text = <<>>
    /\ font_thresholds = NoThresholds
    /\ result = NoResult
    /\ prior_thresholds = NoThresholds
    /\ prior_empty = FALSE

Next == ProcessSinglePdf(MainInputs)

NextEdge == ProcessSinglePdf(EdgeInputs)

NextAnyOrder == ProcessSinglePdf(AnyOrderInputs)

NextSizes == ProcessSinglePdf(SizeInputs)

NextBatch == MainNoFiles \/ MainProcessNext \/ MainComplete

NextReuse == ExtractOutlineCall(ReuseDocs)

Spec == Init /\ [][Next]_vars

SpecEdge == Init /\ [][NextEdge]_vars

SpecAnyOrder == Init /\ [][NextAnyOrder]_vars

SpecSizes == Init /\ [][NextSizes]_vars

SpecBatch == InitBatch /\ [][NextBatch]_vars

SpecReuse == InitReuse /\ [][NextReuse]_vars

---------------------------------------------------------------------------
(* Properties.                                                             *)

\* A document has been processed and had records.
Processed == pc = "done" /\ formatted_text # <<>>

DistinctSizes == {formatted_text[i].font_size : i \in DOMAIN formatted_text}

\* The n-th largest element of S (n >= 1), S having at least n elements.
RECURSIVE NthLargest(_, _)
NthLargest(S, n) == IF n = 1 THEN SetMax(S) ELSE NthLargest(S \ {SetMax(S)}, n - 1)

HeadingLevels == {"H1", "H2", "H3"}

LevelOf(i) ==
    classify_heading_level(formatted_text[i].text, formatted_text[i].font_size,
                           formatted_text[i].page, font_thresholds)

\* Record i is one the loop of extract_outline would emit if its text were new.
Emittable(i) ==
    /\ LevelOf(i) \in HeadingLevels
    /\ Len(heading_text_of[formatted_text[i].text]) > MinOutlineLen

\* C1: for a non-empty document the thresholds are non-increasing, title is the
\* largest distinct font size, and h1, h2, h3 are the 2nd, 3rd, 4th largest
\* distinct sizes, each falling back to the threshold before it when the
\* document has too few distinct sizes.
C1_ThresholdsMonotone ==
    Processed =>
        LET n == Cardinality(DistinctSizes)
            th == font_thresholds
        IN  /\ DOMAIN th = ThresholdKeys
            /\ th["title"] >= th["h1"] /\ th["h1"] >= th["h2"] /\ th["h2"] >= th["h3"]
            /\ th["title"] = NthLargest(DistinctSizes, 1)
            /\ th["h1"] = IF n >= 2 THEN NthLargest(DistinctSizes, 2) ELSE th["title"]
            /\ th["h2"] = IF n >= 3 THEN NthLargest(DistinctSizes, 3) ELSE th["h1"]
            /\ th["h3"] = IF n >= 4 THEN NthLargest(DistinctSizes, 4) ELSE th["h2"]

\* A document with a repeated size and three distinct sizes: h3 falls back.
C1_Witness ==
    /\ Processed
    /\ Cardinality(DistinctSizes) = 3
    /\ Len(formatted_text) > 3
    /\ font_thresholds["h3"] = font_thresholds["h2"]
    /\ font_thresholds["h2"] < font_thresholds["h1"]

\* C2: a line shorter than 3 or longer than 200 characters is never an outline
\* entry and never the title candidate extract_title chooses.
C2_LengthGate ==
    Processed =>
        \A i \in DOMAIN formatted_text :
            LET text == formatted_text[i].text
            IN  (Len(text) < MinHeadingLen \/ Len(text) > MaxHeadingLen) =>
                    /\ \A k \in DOMAIN result.outline :
                          result.outline[k].text # heading_text_of[text]
                    /\ (first_page_text(formatted_text) # <<>>
                        /\ title_candidates(formatted_text) # <<>>)
                       => title_candidates(formatted_text)[1].text # text

\* The three records of C3.
C3_Document ==
    <<[text |-> Text_1_Introduction, font_size |-> 18, page |-> 1],
      [text |-> Text_1_1_Background, font_size |-> 14, page |-> 1],
      [text |-> Text_1_1_Background, font_size |-> 14, page |-> 2]>>

\* C3 as claimed: thresholds 18/18/14/14 and the one entry at level H2.
C3_AsClaimed ==
    (pc = "done" /\ formatted_text = C3_Document) =>
        /\ font_thresholds["title"] = 18 /\ font_thresholds["h1"] = 18
        /\ font_thresholds["h2"] = 14 /\ font_thresholds["h3"] = 14
        /\ LevelOf(1) = "title"
        /\ result.outline =
              <<[level |-> "H2", text |-> Text_1_1_Background, page |-> 1]>>

\* C3 amended: for the three records the thresholds are title=18, h1=14, h2=14,
\* h3=14; "1. Introduction" is classified title and excluded, and the outline is
\* the one entry {level H1, text "1.1 Background", page 1}.
C3_Amended ==
    (pc = "done" /\ formatted_text = C3_Document) =>
        /\ font_thresholds["title"] = 18 /\ font_thresholds["h1"] = 14
        /\ font_thresholds["h2"] = 14 /\ font_thresholds["h3"] = 14
        /\ LevelOf(1) = "title"
        /\ result.outline =
              <<[level |-> "H1", text |-> Text_1_1_Background, page |-> 1]>>

C3_Witness ==
    /\ pc = "done"
    /\ formatted_text = C3_Document
    /\ Len(result.outline) = 1

\* C4: no two outline entries have the same normalized text, and the entry of a
\* text carries the page and level of the first record, in encounter order, that
\* has this normalized text and is classified H1/H2/H3.
C4_FirstOccurrenceWins ==
    Processed =>
        LET out == result.outline
            FirstOf(text) ==
                SetMin({i \in DOMAIN formatted_text :
                           Emittable(i) /\ heading_text_of[formatted_text[i].text] = text})
        IN  /\ \A a, b \in DOMAIN out : a # b => out[a].text # out[b].text
            /\ \A i \in DOMAIN formatted_text :
                  Emittable(i) =>
                      \E a \in DOMAIN out :
                          out[a].text = heading_text_of[formatted_text[i].text]
            /\ \A a \in DOMAIN out :
                  /\ \E i \in DOMAIN formatted_text :
                        Emittable(i) /\ heading_text_of[formatted_text[i].text] = out[a].text
                  /\ out[a].page = formatted_text[FirstOf(out[a].text)].page
                  /\ out[a].level = LevelOf(FirstOf(out[a].text))

\* Two records of one normalized text but different raw text, page and level,
\* both classified as headings; one entry is emitted.
C4_Witness ==
    /\ Processed
    /\ \E i, j \in DOMAIN formatted_text :
          /\ i < j
          /\ Emittable(i) /\ Emittable(j)
          /\ formatted_text[i].text # formatted_text[j].text
          /\ heading_text_of[formatted_text[i].text] = heading_text_of[formatted_text[j].text]
          /\ formatted_text[i].page # formatted_text[j].page
          /\ LevelOf(i) # LevelOf(j)
    /\ Len(result.outline) = 1

\* The entries in encounter order, before the sort.
Encountered == collect_headings(formatted_text, 1, font_thresholds, <<>>, {})

\* C5: the outline is ordered by page ascending, holds the entries collected and
\* no others, and entries of the same page are in encounter order.
C5_SortedByPageStable ==
    Processed =>
        LET out == result.outline
            Position(entry) == CHOOSE k \in DOMAIN Encountered : Encountered[k] = entry
        IN  /\ Len(out) = Len(Encountered)
            /\ \A a \in DOMAIN out : \E k \in DOMAIN Encountered : Encountered[k] = out[a]
            /\ \A a, b \in DOMAIN out : a < b => out[a].page <= out[b].page
            /\ \A a, b \in DOMAIN out :
                  (a < b /\ out[a].page = out[b].page) =>
                      Position(out[a]) < Position(out[b])

\* Records out of page order: an entry of a later page is met between two
\* entries and before one of an earlier page.
C5_Witness ==
    /\ Processed
    /\ Len(Encountered) = 3
    /\ Encountered[1].page > Encountered[2].page
    /\ Encountered[1].page = Encountered[3].page
    /\ result.outline[1] = Encountered[2]

\* C6: no exception leaves process_single_pdf; every file processed so far has
\* its output, an unreadable file has the error result, and at the end of main
\* the output files are those of the input files, one each.
C6_BatchIsolation ==
    /\ ~crashed
    /\ pc # "crashed"
    /\ pc = "main" => DOMAIN output_dir = 1 .. (next_pdf - 1)
    /\ pc = "returned" => (pdf_files = <<>> /\ DOMAIN output_dir = {})
    /\ pc = "complete" => DOMAIN output_dir = 1 .. Len(pdf_files)
    /\ \A k \in DOMAIN output_dir :
          ~pdf_files[k].readable => output_dir[k] = ErrorResult

\* main is over; an unreadable file was followed by a readable one with lines.
C6_Witness ==
    /\ pc = "complete"
    /\ \E k \in 1 .. Len(pdf_files) - 1 :
          /\ ~pdf_files[k].readable
          /\ pdf_files[k + 1].readable
          /\ pdf_files[k + 1].lines # <<>>
          /\ output_dir[k] = ErrorResult
          /\ output_dir[k + 1] # ErrorResult

\* C7: whatever the extractor instance processed before, the result for a
\* record sequence is the result a new extractor returns for it.
C7_ResultOfRecordsOnly ==
    pc = "called" => result = extract_outline(NoThresholds, formatted_text).result

\* The last call began with the thresholds of an earlier document, left in
\* place by an empty document in between, and they are not this document's.
C7_Witness ==
    /\ pc = "called"
    /\ formatted_text # <<>>
    /\ prior_empty
    /\ prior_thresholds # NoThresholds
    /\ prior_thresholds # font_thresholds
    /\ result.outline # <<>>

\* C8: "title" is returned only on page 1 at or above the title threshold; a
\* record past the gate at or above the title threshold on another page is H1;
\* every outline entry has level H1, H2 or H3.
C8_TitleOnlyOnFirstPage ==
    Processed =>
        /\ \A i \in DOMAIN formatted_text :
              LET r == formatted_text[i]
              IN  /\ LevelOf(i) = "title" =>
                        (r.page = 1 /\ r.font_size >= font_thresholds["title"])
                  /\ (heading_gate_of[r.text] /\ r.page # 1
                      /\ r.font_size >= font_thresholds["title"]) => LevelOf(i) = "H1"
        /\ \A a \in DOMAIN result.outline : result.outline[a].level \in HeadingLevels

\* A record of the largest size on page 2 is in the outline as H1, and a record
\* of the same size on page 1 is classified title.
C8_Witness ==
    /\ Processed
    /\ \E i, j \in DOMAIN formatted_text :
          /\ formatted_text[i].page = 1 /\ LevelOf(i) = "title"
          /\ formatted_text[j].page = 2
          /\ formatted_text[j].font_size = font_thresholds["title"]
          /\ \E a \in DOMAIN result.outline :
                /\ result.outline[a].text = heading_text_of[formatted_text[j].text]
                /\ result.outline[a].level = "H1"
                /\ result.outline[a].page = 2

\* C9: in a document of fewer than 4 distinct sizes every record past the gate
\* is at or above h3 and gets its level from the font-size rules; in any document
\* a record reaches the numbering / capitals rule only with a font size below the
\* 4th largest distinct size.
C9_FallbackOnlyBelowFourth ==
    Processed =>
        \A i \in DOMAIN formatted_text :
            LET r == formatted_text[i]
                by_size == font_size_level(r.font_size, r.page, font_thresholds)
            IN  heading_gate_of[r.text] =>
                    /\ Cardinality(DistinctSizes) < 4 =>
                          /\ r.font_size >= font_thresholds["h3"]
                          /\ by_size \in HeadingLevels \cup {"title"}
                          /\ LevelOf(i) = by_size
                    /\ by_size = "None" =>
                          /\ Cardinality(DistinctSizes) > 4
                          /\ r.font_size < NthLargest(DistinctSizes, 4)
                          /\ LevelOf(i) = pattern_level_of[r.text]

\* Collapsed thresholds: a line numbered d.d.d at the smallest of two sizes gets
\* H1 from its size, not H3 from its number.
C9_Witness ==
    /\ Processed
    /\ Cardinality(DistinctSizes) = 2
    /\ \E i \in DOMAIN formatted_text :
          /\ formatted_text[i].font_size = SetMin(DistinctSizes)
          /\ heading_gate_of[formatted_text[i].text]
          /\ pattern_level_of[formatted_text[i].text] = "H3"
          /\ LevelOf(i) = "H1"

\* C10: for a non-empty document the title is a non-empty string: the cleaned
\* text of the first largest page-1 line longer than 3 characters, a line of the
\* fallback scan, or "Untitled Document".
C10_TitleNonEmpty ==
    Processed =>
        /\ result.title # <<>>
        /\ \/ result.title = UntitledDocument
           \/ \E i \in DOMAIN formatted_text :
                 /\ formatted_text[i].page = 1
                 /\ \/ result.title = clean_title_of[formatted_text[i].text]
                    \/ result.title = stripped_of[formatted_text[i].text]

===========================================================================
